---- MODULE Spec2Model ----
(***************************************************************************)
(* Scope gate of the integration specialist: analyze_scope and             *)
(* detect_anti_patterns of scope_validator.py, their copies in             *)
(* integration_specialist_tool.py with the tool wrapper, and the command   *)
(* line front ends check_scope.py and check_scope_standalone.py, used by   *)
(* independent callers.                                                    *)
(*                                                                         *)
(* Python strings are modelled as sequences of one-character strings, so   *)
(* that str.lower, the substring test `a in b`, str.split, str.join,       *)
(* sorted and repr are computed character by character.                    *)
(***************************************************************************)
EXTENDS Naturals, Sequences, FiniteSets

VARIABLES
    files,        \* files[c]: the list object caller c passes as `files`
    description,  \* description[c]: the string caller c passes as `description`
    pc,           \* pc[c]: "ready" | "returned" | "raised"; for a run of main
                  \*   also "usage" | "failed"; "responded" after the tool
    result,       \* result[c]: <<>> or <<the dict analyze_scope returned>>
    error,        \* error[c]: <<>> or <<the ScopeViolationError it raised>>
    calls,        \* calls[c]: number of calls caller c has made
    impl,         \* impl[c]: the module caller c imports the core from
    steps,        \* steps[c]: the stages of the core run by c's last call
    argv,         \* argv[c]: sys.argv of a command-line run (<<>> otherwise)
    fault,        \* fault[c]: an exception other than ScopeViolationError is
                  \*   raised inside the try block of main
    status,       \* status[c]: <<>> or <<the exit status of the run>>
    response      \* response[c]: <<>> or <<the dict the tool wrapper returned>>

vars == <<files, description, pc, result, error, calls,
          impl, steps, argv, fault, status, response>>

(***************************************************************************)
(* Bounds of the model.                                                    *)
(***************************************************************************)
MaxFiles == 11     \* longest file list submitted
MaxCalls == 2      \* calls made by one caller
NumCallers == 2    \* callers of the concurrent specification

(***************************************************************************)
(* Characters.                                                             *)
(***************************************************************************)
\* Printable ASCII in code-point order, from 32 (space) to 126 (~); "grave"
\* stands for the grave accent (96), which a TLA+ string cannot hold.
Ascii ==
    <<" ", "!", "\"", "#", "$", "%", "&", "'", "(", ")", "*", "+", ",", "-",
      ".", "/", "0", "1", "2", "3", "4", "5", "6", "7", "8", "9", ":", ";",
      "<", "=", ">", "?", "@", "A", "B", "C", "D", "E", "F", "G", "H", "I",
      "J", "K", "L", "M", "N", "O", "P", "Q", "R", "S", "T", "U", "V", "W",
      "X", "Y", "Z", "[", "\\", "]", "^", "_", "grave", "a", "b", "c", "d", "e",
      "f", "g", "h", "i", "j", "k", "l", "m", "n", "o", "p", "q", "r", "s",
      "t", "u", "v", "w", "x", "y", "z", "{", "|", "}", "~">>

\* Position of each character in Ascii (its code point minus 31).
CodePoint == [ch \in {Ascii[i] : i \in 1..Len(Ascii)} |->
                 CHOOSE i \in 1..Len(Ascii) : Ascii[i] = ch]

Ord(ch) == CodePoint[ch]

\* Distance between an upper-case letter and its lower-case form.
CaseOffset == Ord("a") - Ord("A")

UpperCase == {Ascii[i] : i \in Ord("A")..Ord("Z")}

\* The lower-case form of each upper-case letter.
ToLower == [ch \in UpperCase |-> Ascii[Ord(ch) + CaseOffset]]

\* str.lower on one character.
LowerChar(ch) == IF ch \in UpperCase THEN ToLower[ch] ELSE ch

\* str.lower.
RECURSIVE Lower(_)
Lower(s) ==
    IF Len(s) = 0 THEN <<>> ELSE <<LowerChar(Head(s))>> \o Lower(Tail(s))

\* The substring test `sub in s`.
In(sub, s) ==
    \E i \in 0..(Len(s) - Len(sub)) : \A j \in 1..Len(sub) : s[i + j] = sub[j]

\* any(kw in s for kw in kws), kws a list.
AnyIn(kws, s) == \E k \in 1..Len(kws) : In(kws[k], s)

\* [x for x in xs if keep], keep a set of indices: the sub-list at the
\* indices of keep, in list order.
RECURSIVE Filter(_, _, _)
Filter(xs, keep, i) ==
    IF i > Len(xs) THEN <<>>
    ELSE (IF i \in keep THEN <<xs[i]>> ELSE <<>>) \o Filter(xs, keep, i + 1)

\* sep.join(parts).
RECURSIVE Join(_, _)
Join(sep, parts) ==
    IF Len(parts) = 0 THEN <<>>
    ELSE IF Len(parts) = 1 THEN parts[1]
    ELSE parts[1] \o sep \o Join(sep, Tail(parts))

\* s.split('/').
RECURSIVE Split(_)
Split(s) ==
    IF \A i \in 1..Len(s) : s[i] # "/" THEN <<s>>
    ELSE LET cut == CHOOSE i \in 1..Len(s) :
                        s[i] = "/" /\ \A j \in 1..(i - 1) : s[j] # "/"
         IN <<SubSeq(s, 1, cut - 1)>> \o Split(SubSeq(s, cut + 1, Len(s)))

\* a < b for Python strings: code-point lexicographic order.
RECURSIVE StrLess(_, _)
StrLess(a, b) ==
    IF Len(b) = 0 THEN FALSE
    ELSE IF Len(a) = 0 THEN TRUE
    ELSE IF a[1] # b[1] THEN Ord(a[1]) < Ord(b[1])
    ELSE StrLess(Tail(a), Tail(b))

\* sorted(S), S a set of strings.
RECURSIVE Sorted(_)
Sorted(S) ==
    IF S = {} THEN <<>>
    ELSE LET least == CHOOSE a \in S : \A b \in S \ {a} : StrLess(a, b)
         IN <<least>> \o Sorted(S \ {least})

\* repr of a list of strings: ['factory', 'handler'].
Repr(strs) ==
    <<"[">> \o Join(<<",", " ">>, [i \in 1..Len(strs) |-> <<"'">> \o strs[i] \o <<"'">>])
        \o <<"]">>

(***************************************************************************)
(* Keyword lists.                                                          *)
(***************************************************************************)
INFRASTRUCTURE_FILES == <<
    <<"D", "o", "c", "k", "e", "r", "f", "i", "l", "e">>,
    <<"d", "o", "c", "k", "e", "r", "-", "c", "o", "m", "p", "o", "s", "e", ".", "y", "m", "l">>,
    <<"d", "o", "c", "k", "e", "r", "-", "c", "o", "m", "p", "o", "s", "e", ".", "y", "a", "m", "l">>,
    <<"n", "g", "i", "n", "x", ".", "c", "o", "n", "f">>,
    <<".", "k", "8", "s", "/">>,
    <<"k", "u", "b", "e", "r", "n", "e", "t", "e", "s", "/">>,
    <<"t", "e", "r", "r", "a", "f", "o", "r", "m", "/">>,
    <<".", "t", "f">>,
    <<".", "g", "i", "t", "h", "u", "b", "/", "w", "o", "r", "k", "f", "l", "o", "w", "s", "/">>,
    <<"J", "e", "n", "k", "i", "n", "s", "f", "i", "l", "e">>,
    <<".", "c", "i", "r", "c", "l", "e", "c", "i", "/">> >>

ui_keywords == <<
    <<"u", "i">>,
    <<"c", "s", "s">>,
    <<"s", "t", "y", "l", "e">>,
    <<"b", "u", "t", "t", "o", "n">>,
    <<"l", "a", "y", "o", "u", "t">> >>

complexity_keywords == <<
    <<"f", "a", "c", "t", "o", "r", "y">>,
    <<"m", "a", "n", "a", "g", "e", "r">>,
    <<"h", "a", "n", "d", "l", "e", "r">>,
    <<"b", "u", "i", "l", "d", "e", "r">>,
    <<"s", "t", "r", "a", "t", "e", "g", "y">>,
    <<"a", "d", "a", "p", "t", "e", "r">> >>

simple_fix_keywords == <<
    <<"f", "i", "x">>,
    <<"b", "u", "g">>,
    <<"t", "y", "p", "o">>,
    <<"m", "i", "n", "o", "r">> >>

(***************************************************************************)
(* Warnings.  A warning string is modelled by its fixed wording (msg) and  *)
(* by the parts its f-string formats in: a number (count) and a formatted  *)
(* list (text).                                                            *)
(***************************************************************************)
InfraUiMsg == "ANTI-PATTERN: Infrastructure files modified for UI issue! Files: {text} Recommendation: Keep infrastructure changes separate from UI fixes"
CrossModuleMsg == "ANTI-PATTERN: Changes span {count} unrelated modules: {text} Recommendation: Split into focused changes per module"
ComplexityMsg == "ANTI-PATTERN: Complex abstractions ({text}) for simple fix Recommendation: Use simplest solution that works"
LocalMsg == "Local scope - auto-approved"
ModerateMsg == "Moderate scope - approved with caution"
ExtensiveMsg == "Extensive scope - approaching limit (max 10 files)"

CommaSpace == <<",", " ">>

(***************************************************************************)
(* detect_anti_patterns                                                    *)
(***************************************************************************)
\* Mutant of infra_found: the path is a marker, not a path containing one.
infra_found_exact(fs) ==
    Filter(fs, {i \in 1..Len(fs) :
                    \E k \in 1..Len(INFRASTRUCTURE_FILES) : fs[i] = INFRASTRUCTURE_FILES[k]}, 1)

\* [f for f in files if any(infra in f for infra in INFRASTRUCTURE_FILES)]
infra_found(fs) ==
    Filter(fs, {i \in 1..Len(fs) : AnyIn(INFRASTRUCTURE_FILES, fs[i])}, 1)

\* Check 1: infrastructure files for a UI issue.
Check1(fs, desc_lower) ==
    IF AnyIn(ui_keywords, desc_lower) /\ infra_found(fs) # <<>>
    THEN <<[msg |-> InfraUiMsg, count |-> 0,
            text |-> Join(CommaSpace, infra_found(fs))]>>
    ELSE <<>>

\* The set top_dirs after the loop over files.
top_dirs(fs) ==
    {Split(fs[i])[1] : i \in {j \in 1..Len(fs) : Len(Split(fs[j])) > 1}}

\* Mutant of Check2: the warning is due from 3 modules on.
Check2_from_three(fs) ==
    IF Cardinality(top_dirs(fs)) >= 3
    THEN <<[msg |-> CrossModuleMsg, count |-> Cardinality(top_dirs(fs)),
            text |-> Join(CommaSpace, Sorted(top_dirs(fs)))]>>
    ELSE <<>>

\* Check 2: more than 3 top-level directories.
Check2(fs) ==
    IF Cardinality(top_dirs(fs)) > 3
    THEN <<[msg |-> CrossModuleMsg, count |-> Cardinality(top_dirs(fs)),
            text |-> Join(CommaSpace, Sorted(top_dirs(fs)))]>>
    ELSE <<>>

desc_has_complexity(desc_lower) == AnyIn(complexity_keywords, desc_lower)

desc_is_simple(desc_lower) == AnyIn(simple_fix_keywords, desc_lower)

\* Mutant of Check3: one of the two conditions is enough.
Check3_either(desc_lower) ==
    IF desc_has_complexity(desc_lower) \/ desc_is_simple(desc_lower)
    THEN <<[msg |-> ComplexityMsg, count |-> 0,
            text |-> Repr(Filter(complexity_keywords,
                                 {k \in 1..Len(complexity_keywords) :
                                      In(complexity_keywords[k], desc_lower)}, 1))]>>
    ELSE <<>>

\* Check 3: complex abstractions for a simple fix.
Check3(desc_lower) ==
    IF desc_has_complexity(desc_lower) /\ desc_is_simple(desc_lower)
    THEN <<[msg |-> ComplexityMsg, count |-> 0,
            text |-> Repr(Filter(complexity_keywords,
                                 {k \in 1..Len(complexity_keywords) :
                                      In(complexity_keywords[k], desc_lower)}, 1))]>>
    ELSE <<>>

\* Mutant of detect_anti_patterns: `warnings` is one list shared by all the
\* calls, which keeps what earlier calls put in it.
detect_anti_patterns_shared(fs, desc) ==
    (IF \E c \in DOMAIN result : result[c] # <<>>
     THEN result[CHOOSE c \in DOMAIN result : result[c] # <<>>][1].warnings
     ELSE <<>>)
    \o Check1(fs, Lower(desc)) \o Check2(fs) \o Check3(Lower(desc))

\* Mutant of detect_anti_patterns: the checks are an if / elif chain.
detect_anti_patterns_first_match(fs, desc) ==
    IF Check1(fs, Lower(desc)) # <<>> THEN Check1(fs, Lower(desc))
    ELSE IF Check2(fs) # <<>> THEN Check2(fs)
    ELSE Check3(Lower(desc))

\* The list `warnings` that detect_anti_patterns returns.
detect_anti_patterns(fs, desc) ==
    Check1(fs, Lower(desc)) \o Check2(fs) \o Check3(Lower(desc))

(***************************************************************************)
(* analyze_scope                                                           *)
(***************************************************************************)
MaxAllowed == 10

\* Mutant of file_count: distinct paths are counted.
file_count_distinct(fs) == Cardinality({fs[i] : i \in 1..Len(fs)})

file_count(fs) == Len(fs)

\* Mutant of exceeds_limit: the limit is reached at 10 files.
exceeds_limit_inclusive(n) == n >= 10

\* if file_count > 10
exceeds_limit(n) == n > MaxAllowed

\* files[:5] joined, then '...' when there are more than 5.
ViolationFiles(fs) ==
    Join(CommaSpace, SubSeq(fs, 1, IF Len(fs) < 5 THEN Len(fs) ELSE 5))
        \o (IF Len(fs) > 5 THEN <<".", ".", ".">> ELSE <<>>)

\* The exception raised.
ScopeViolationError(fs, n) ==
    [file_count |-> n, max_allowed |-> MaxAllowed, shown |-> ViolationFiles(fs)]

\* Mutant of scope_level: the first threshold is exclusive.
scope_level_exclusive(n) ==
    IF n < 3 THEN "LOCAL"
    ELSE IF n <= 5 THEN "MODERATE"
    ELSE "EXTENSIVE"

scope_level(n) ==
    IF n <= 3 THEN "LOCAL"
    ELSE IF n <= 5 THEN "MODERATE"
    ELSE "EXTENSIVE"

scope_message(n) ==
    IF n <= 3 THEN LocalMsg
    ELSE IF n <= 5 THEN ModerateMsg
    ELSE ExtensiveMsg

\* Mutant of insert_scope_message: the advisory is inserted into files.
insert_into_files(warnings, fs, level, message) ==
    [warnings |-> warnings,
     files |-> IF level \in {"MODERATE", "EXTENSIVE"}
               THEN <<message>> \o fs
               ELSE fs]

\* Mutant of insert_scope_message: the scope message is appended.
insert_scope_message_last(warnings, fs, level, message) ==
    [warnings |-> IF level \in {"MODERATE", "EXTENSIVE"}
                  THEN warnings \o <<[msg |-> message, count |-> 0, text |-> <<>>]>>
                  ELSE warnings,
     files |-> fs]

\* if scope_level in ["MODERATE", "EXTENSIVE"]: warnings.insert(0, scope_message)
\* The two list objects in scope, after the statement.
insert_scope_message(warnings, fs, level, message) ==
    [warnings |-> IF level \in {"MODERATE", "EXTENSIVE"}
                  THEN <<[msg |-> message, count |-> 0, text |-> <<>>]>> \o warnings
                  ELSE warnings,
     files |-> fs]

\* Mutant of Decision: approved only when there is no warning.
Decision_unless_warned(level, n, warnings, fs) ==
    [approved |-> (warnings = <<>>), scope_level |-> level, file_count |-> n,
     warnings |-> warnings, files |-> fs]

\* The dict returned.
Decision(level, n, warnings, fs) ==
    [approved |-> TRUE, scope_level |-> level, file_count |-> n,
     warnings |-> warnings, files |-> fs]

\* Mutant of analyze_scope: detect_anti_patterns is called before the file
\* count is checked.
analyze_scope_detect_first(fs, desc) ==
    LET n == file_count(fs)
        detected == detect_anti_patterns(fs, desc)
    IN IF exceeds_limit(n)
       THEN [returned |-> <<>>, raised |-> <<ScopeViolationError(fs, n)>>, files |-> fs,
             steps |-> <<"detect", "classify">>]
       ELSE LET lists == insert_scope_message(detected, fs, scope_level(n), scope_message(n))
            IN [returned |-> <<Decision(scope_level(n), n, lists.warnings, lists.files)>>,
                raised |-> <<>>,
                files |-> lists.files,
                steps |-> <<"detect", "classify", "assemble">>]

\* One call: what it returns (returned) or raises (raised), the content of
\* the caller's list object when it ends (files), and the stages it ran, in
\* order (steps): the file count check and the scope level ("classify"),
\* detect_anti_patterns ("detect"), the returned dict ("assemble").
analyze_scope(fs, desc) ==
    LET n == file_count(fs) IN
    IF exceeds_limit(n)
    THEN [returned |-> <<>>, raised |-> <<ScopeViolationError(fs, n)>>, files |-> fs,
          steps |-> <<"classify">>]
    ELSE LET lists == insert_scope_message(detect_anti_patterns(fs, desc), fs,
                                           scope_level(n), scope_message(n))
         IN [returned |-> <<Decision(scope_level(n), n, lists.warnings, lists.files)>>,
             raised |-> <<>>,
             files |-> lists.files,
             steps |-> <<"classify", "detect", "assemble">>]

(***************************************************************************)
(* integration_specialist_tool.py: its own copy of the core.               *)
(***************************************************************************)
tool_INFRASTRUCTURE_FILES == <<
    <<"D", "o", "c", "k", "e", "r", "f", "i", "l", "e">>,
    <<"d", "o", "c", "k", "e", "r", "-", "c", "o", "m", "p", "o", "s", "e", ".", "y", "m", "l">>,
    <<"d", "o", "c", "k", "e", "r", "-", "c", "o", "m", "p", "o", "s", "e", ".", "y", "a", "m", "l">>,
    <<"n", "g", "i", "n", "x", ".", "c", "o", "n", "f">>,
    <<".", "k", "8", "s", "/">>,
    <<"k", "u", "b", "e", "r", "n", "e", "t", "e", "s", "/">>,
    <<"t", "e", "r", "r", "a", "f", "o", "r", "m", "/">>,
    <<".", "t", "f">>,
    <<".", "g", "i", "t", "h", "u", "b", "/", "w", "o", "r", "k", "f", "l", "o", "w", "s", "/">>,
    <<"J", "e", "n", "k", "i", "n", "s", "f", "i", "l", "e">>,
    <<".", "c", "i", "r", "c", "l", "e", "c", "i", "/">> >>

tool_ui_keywords == <<
    <<"u", "i">>,
    <<"c", "s", "s">>,
    <<"s", "t", "y", "l", "e">>,
    <<"b", "u", "t", "t", "o", "n">>,
    <<"l", "a", "y", "o", "u", "t">> >>

tool_complexity_keywords == <<
    <<"f", "a", "c", "t", "o", "r", "y">>,
    <<"m", "a", "n", "a", "g", "e", "r">>,
    <<"h", "a", "n", "d", "l", "e", "r">>,
    <<"b", "u", "i", "l", "d", "e", "r">>,
    <<"s", "t", "r", "a", "t", "e", "g", "y">>,
    <<"a", "d", "a", "p", "t", "e", "r">> >>

tool_simple_fix_keywords == <<
    <<"f", "i", "x">>,
    <<"b", "u", "g">>,
    <<"t", "y", "p", "o">>,
    <<"m", "i", "n", "o", "r">> >>

\* Mutant of tool_infra_found: the markers are looked for whatever the case.
tool_infra_found_any_case(fs) ==
    Filter(fs, {i \in 1..Len(fs) :
                    \E k \in 1..Len(tool_INFRASTRUCTURE_FILES) :
                        In(Lower(tool_INFRASTRUCTURE_FILES[k]), Lower(fs[i]))}, 1)

\* infra_found of integration_specialist_tool.py.
tool_infra_found(fs) ==
    Filter(fs, {i \in 1..Len(fs) : AnyIn(tool_INFRASTRUCTURE_FILES, fs[i])}, 1)

tool_top_dirs(fs) ==
    {Split(fs[i])[1] : i \in {j \in 1..Len(fs) : Len(Split(fs[j])) > 1}}

\* detect_anti_patterns of integration_specialist_tool.py.
tool_detect_anti_patterns(fs, desc) ==
    LET desc_lower == Lower(desc)
        check1 == IF AnyIn(tool_ui_keywords, desc_lower) /\ tool_infra_found(fs) # <<>>
                  THEN <<[msg |-> InfraUiMsg, count |-> 0,
                          text |-> Join(CommaSpace, tool_infra_found(fs))]>>
                  ELSE <<>>
        check2 == IF Cardinality(tool_top_dirs(fs)) > 3
                  THEN <<[msg |-> CrossModuleMsg,
                          count |-> Cardinality(tool_top_dirs(fs)),
                          text |-> Join(CommaSpace, Sorted(tool_top_dirs(fs)))]>>
                  ELSE <<>>
        check3 == IF AnyIn(tool_complexity_keywords, desc_lower)
                         /\ AnyIn(tool_simple_fix_keywords, desc_lower)
                  THEN <<[msg |-> ComplexityMsg, count |-> 0,
                          text |-> Repr(Filter(tool_complexity_keywords,
                                               {k \in 1..Len(tool_complexity_keywords) :
                                                    In(tool_complexity_keywords[k], desc_lower)},
                                               1))]>>
                  ELSE <<>>
    IN check1 \o check2 \o check3

\* _analyze_scope_impl, exported as analyze_integration_scope_sync.
_analyze_scope_impl(fs, desc) ==
    LET n == Len(fs) IN
    IF n > 10
    THEN [returned |-> <<>>,
          raised |-> <<[file_count |-> n, max_allowed |-> 10,
                        shown |-> Join(CommaSpace, SubSeq(fs, 1, IF Len(fs) < 5 THEN Len(fs) ELSE 5))
                                      \o (IF Len(fs) > 5 THEN <<".", ".", ".">> ELSE <<>>)]>>,
          files |-> fs,
          steps |-> <<"classify">>]
    ELSE LET level == IF n <= 3 THEN "LOCAL"
                      ELSE IF n <= 5 THEN "MODERATE" ELSE "EXTENSIVE"
             message == IF n <= 3 THEN LocalMsg
                        ELSE IF n <= 5 THEN ModerateMsg ELSE ExtensiveMsg
             detected == tool_detect_anti_patterns(fs, desc)
             warnings == IF level \in {"MODERATE", "EXTENSIVE"}
                         THEN <<[msg |-> message, count |-> 0, text |-> <<>>]>> \o detected
                         ELSE detected
         IN [returned |-> <<[approved |-> TRUE, scope_level |-> level, file_count |-> n,
                             warnings |-> warnings, files |-> fs]>>,
             raised |-> <<>>,
             files |-> fs,
             steps |-> <<"classify", "detect", "assemble">>]

\* Mutant of violation_response: the response is not flagged as an error.
violation_response_unflagged(e) ==
    [content |-> <<[type |-> "text",
                    text |-> [headline |-> "SCOPE VIOLATION BLOCKED", str_e |-> e.shown]]>>,
     is_error |-> <<>>,
     error |-> <<[type |-> "ScopeViolationError",
                  file_count |-> e.file_count, max_allowed |-> e.max_allowed]>>,
     result |-> <<>>]

\* The dict returned by the handler of ScopeViolationError e.  A key the
\* dict does not have is <<>>, a key it has is <<value>>; the text is kept
\* as its headline and the values formatted into it.
violation_response(e) ==
    [content |-> <<[type |-> "text",
                    text |-> [headline |-> "SCOPE VIOLATION BLOCKED", str_e |-> e.shown]]>>,
     is_error |-> <<TRUE>>,
     error |-> <<[type |-> "ScopeViolationError",
                  file_count |-> e.file_count, max_allowed |-> e.max_allowed]>>,
     result |-> <<>>]

\* The dict returned after _analyze_scope_impl returned the decision.
success_response(decision) ==
    [content |-> <<[type |-> "text",
                    text |-> [headline |-> "Scope analysis complete",
                              approved |-> decision.approved,
                              scope_level |-> decision.scope_level,
                              file_count |-> decision.file_count,
                              warnings |-> decision.warnings]]>>,
     is_error |-> <<>>,
     error |-> <<>>,
     result |-> <<decision>>]

\* The tool wrapper, awaited with args = {"files": ..., "description": ...}:
\* the dict it returns, the caller's list object afterwards and the stages
\* of the core it ran.
analyze_integration_scope(args) ==
    LET out == _analyze_scope_impl(args.files, args.description) IN
    [response |-> IF out.raised # <<>> THEN violation_response(out.raised[1])
                  ELSE success_response(out.returned[1]),
     files |-> out.files,
     steps |-> out.steps]

\* The core a caller gets from the module it imports.
Core(module, fs, desc) ==
    IF module = "scope_validator" THEN analyze_scope(fs, desc)
    ELSE _analyze_scope_impl(fs, desc)

(***************************************************************************)
(* Requests.                                                               *)
(***************************************************************************)
PathPool == <<
    <<"a", "/", "x", ".", "c", "s", "s">>,
    <<"D", "o", "c", "k", "e", "r", "f", "i", "l", "e">>,
    <<"b", "/", "m", ".", "t", "f", "v", "a", "r", "s">>,
    <<"c", "/", "y">>,
    <<"D", "/", "z">>,
    <<"d", "o", "c", "k", "e", "r", "f", "i", "l", "e">>,
    <<"/", "w">> >>

\* The list of n paths taken from the pool from position start, every step-th
\* (step 0: n copies of one path).
Walk(start, step, n) ==
    [i \in 1..n |-> PathPool[((start + (i - 1) * step) % Len(PathPool)) + 1]]

FileLists ==
    {Walk(start, step, n) : start \in 0..(Len(PathPool) - 1),
                            step \in 0..(Len(PathPool) - 1),
                            n \in 0..MaxFiles}

Descriptions == {
    <<>>,
    <<"F", "i", "x", " ", "C", "S", "S">>,
    <<"a", "d", "d", " ", "F", "a", "c", "t", "o", "r", "y">>,
    <<"f", "i", "x", " ", "h", "a", "n", "d", "l", "e", "r", " ", "f", "a", "c", "t", "o", "r", "y">>,
    <<"u", "p", "d", "a", "t", "e", " ", "d", "o", "c", "s">>,
    <<"b", "u", "i", "l", "d">>,
    <<"B", "u", "i", "l", "d", "e", "r", " ", "b", "u", "g">>,
    <<"M", "i", "n", "o", "r", " ", "L", "A", "Y", "O", "U", "T", " ", "S", "t", "r", "a", "t", "e", "g", "y">> }

\* The requests of the concurrent specification.
ConcFileLists == {Walk(0, 1, 2), Walk(0, 1, 5), Walk(1, 0, MaxFiles)}

ConcDescriptions == {
    <<"F", "i", "x", " ", "C", "S", "S">>,
    <<"u", "p", "d", "a", "t", "e", " ", "d", "o", "c", "s">> }

(***************************************************************************)
(* The callers.                                                            *)
(***************************************************************************)
Callers == DOMAIN pc

\* One caller with any request.
Init ==
    \E fl \in FileLists, d \in Descriptions :
        /\ files = [c \in {1} |-> fl]
        /\ description = [c \in {1} |-> d]
        /\ pc = [c \in {1} |-> "ready"]
        /\ result = [c \in {1} |-> <<>>]
        /\ error = [c \in {1} |-> <<>>]
        /\ calls = [c \in {1} |-> 0]
        /\ impl = [c \in {1} |-> "scope_validator"]
        /\ steps = [c \in {1} |-> <<>>]
        /\ argv = [c \in {1} |-> <<>>]
        /\ fault = [c \in {1} |-> FALSE]
        /\ status = [c \in {1} |-> <<>>]
        /\ response = [c \in {1} |-> <<>>]

\* Several callers, each with its own request.
InitConc ==
    /\ files \in [1..NumCallers -> ConcFileLists]
    /\ description \in [1..NumCallers -> ConcDescriptions]
    /\ pc = [c \in 1..NumCallers |-> "ready"]
    /\ result = [c \in 1..NumCallers |-> <<>>]
    /\ error = [c \in 1..NumCallers |-> <<>>]
    /\ calls = [c \in 1..NumCallers |-> 0]
    /\ impl = [c \in 1..NumCallers |-> "scope_validator"]
    /\ steps = [c \in 1..NumCallers |-> <<>>]
    /\ argv = [c \in 1..NumCallers |-> <<>>]
    /\ fault = [c \in 1..NumCallers |-> FALSE]
    /\ status = [c \in 1..NumCallers |-> <<>>]
    /\ response = [c \in 1..NumCallers |-> <<>>]

\* Caller c calls the core it imported (analyze_scope or
\* analyze_integration_scope_sync) with its files and description, and gets
\* the outcome.
Call(c) ==
    /\ calls[c] < MaxCalls
    /\ LET out == Core(impl[c], files[c], description[c]) IN
         /\ files' = [files EXCEPT ![c] = out.files]
         /\ result' = [result EXCEPT ![c] = out.returned]
         /\ error' = [error EXCEPT ![c] = out.raised]
         /\ steps' = [steps EXCEPT ![c] = out.steps]
         /\ pc' = [pc EXCEPT ![c] = IF out.raised # <<>> THEN "raised" ELSE "returned"]
    /\ calls' = [calls EXCEPT ![c] = @ + 1]
    /\ UNCHANGED <<description, impl, argv, fault, status, response>>

Next == \E c \in Callers : Call(c)

Spec == Init /\ [][Next]_vars

SpecConc == InitConc /\ [][Next]_vars

(***************************************************************************)
(* check_scope.py and check_scope_standalone.py: main.                     *)
(***************************************************************************)
Dashes == <<"-", "-">>

Space == <<" ">>

\* sys.argv[0] of the front end that imports the core from the module.
ProgName(module) ==
    IF module = "scope_validator"
    THEN <<"c", "h", "e", "c", "k", "_", "s", "c", "o", "p", "e", "_", "s", "t", "a", "n", "d", "a", "l", "o", "n", "e", ".", "p", "y">>
    ELSE <<"c", "h", "e", "c", "k", "_", "s", "c", "o", "p", "e", ".", "p", "y">>

ExitApproved == 0

ExitUsage == 2

ExitError == 2

\* Mutant of ExitViolation: a scope violation ends the run like a usage error.
ExitViolation_as_usage == ExitUsage

ExitViolation == 1

\* len(sys.argv) < 3
too_few_args(av) == Len(av) < 3

\* Mutant of separator_idx: the position of the last "--".
separator_idx_last(av) ==
    CHOOSE i \in 1..Len(av) : av[i] = Dashes /\ \A j \in (i + 1)..Len(av) : av[j] # Dashes

\* sys.argv.index("--"), as a position of the 1-based av.
separator_idx(av) ==
    CHOOSE i \in 1..Len(av) : av[i] = Dashes /\ \A j \in 1..(i - 1) : av[j] # Dashes

\* The files and the description main takes from sys.argv (av[1] is
\* sys.argv[0]); index raises ValueError when no element is "--".
parse_args(av) ==
    IF \E i \in 1..Len(av) : av[i] = Dashes
    THEN [files |-> SubSeq(av, 2, separator_idx(av) - 1),
          description |-> Join(Space, SubSeq(av, separator_idx(av) + 1, Len(av)))]
    ELSE [files |-> SubSeq(av, 2, Len(av) - 1),
          description |-> av[Len(av)]]

\* not files
no_files(args) == args.files = <<>>

\* Mutant of no_description: the description is not looked at.
no_description_never(args) == FALSE

\* not description
no_description(args) == args.description = <<>>

\* A run that ends at one of the sys.exit(2) before the core is called.
usage_exit(fs, desc) ==
    [status |-> ExitUsage, pc |-> "usage", invoked |-> FALSE,
     files |-> fs, description |-> desc,
     returned |-> <<>>, raised |-> <<>>, steps |-> <<>>]

\* One run of main with sys.argv = av by the front end of the module: its
\* exit status, whether the core was invoked and with which files and
\* description, and the decision printed in full on standard output
\* (returned).  flt: one of the prints that follow the core's return raises
\* an exception; the printout is cut short and the last handler takes over.
main(av, module, flt) ==
    IF too_few_args(av) THEN usage_exit(<<>>, <<>>)
    ELSE LET args == parse_args(av) IN
         IF no_files(args) THEN usage_exit(args.files, args.description)
         ELSE IF no_description(args) THEN usage_exit(args.files, args.description)
         ELSE LET out == Core(module, args.files, args.description) IN
              IF out.raised # <<>>
              THEN [status |-> ExitViolation, pc |-> "raised", invoked |-> TRUE,
                    files |-> out.files, description |-> args.description,
                    returned |-> <<>>, raised |-> out.raised, steps |-> out.steps]
              ELSE IF flt
              THEN [status |-> ExitError, pc |-> "failed", invoked |-> TRUE,
                    files |-> out.files, description |-> args.description,
                    returned |-> <<>>, raised |-> <<>>, steps |-> out.steps]
              ELSE [status |-> ExitApproved, pc |-> "returned", invoked |-> TRUE,
                    files |-> out.files, description |-> args.description,
                    returned |-> out.returned, raised |-> <<>>, steps |-> out.steps]

\* What follows the file arguments on the command line.
Tails == {
    <<>>,
    <<Dashes>>,
    <<Dashes, <<"F", "i", "x">>, <<"C", "S", "S">>>>,
    <<Dashes, <<"f", "i", "x">>, Dashes, <<"f", "a", "c", "t", "o", "r", "y">>>>,
    <<Dashes, <<>>>>,
    <<Dashes, <<>>, <<>>>>,
    <<<<"F", "i", "x", " ", "C", "S", "S">>>>,
    <<<<>>>> }

\* The arguments of a run: file paths, then one of the tails.
ArgLists ==
    {Walk(start, step, n) \o tail : start \in 0..1, step \in 0..1,
                                    n \in 0..MaxFiles, tail \in Tails}

CoreModules == {"scope_validator", "integration_specialist_tool"}

\* One run of either front end with any arguments, with standard output
\* working or failing.
InitCli ==
    \E module \in CoreModules, args \in ArgLists, flt \in BOOLEAN :
        /\ argv = [c \in {1} |-> <<ProgName(module)>> \o args]
        /\ impl = [c \in {1} |-> module]
        /\ fault = [c \in {1} |-> flt]
        /\ files = [c \in {1} |-> <<>>]
        /\ description = [c \in {1} |-> <<>>]
        /\ pc = [c \in {1} |-> "ready"]
        /\ result = [c \in {1} |-> <<>>]
        /\ error = [c \in {1} |-> <<>>]
        /\ calls = [c \in {1} |-> 0]
        /\ steps = [c \in {1} |-> <<>>]
        /\ status = [c \in {1} |-> <<>>]
        /\ response = [c \in {1} |-> <<>>]

\* The run of main in process c, to its sys.exit.
Main(c) ==
    /\ pc[c] = "ready"
    /\ LET run == main(argv[c], impl[c], fault[c]) IN
         /\ files' = [files EXCEPT ![c] = run.files]
         /\ description' = [description EXCEPT ![c] = run.description]
         /\ result' = [result EXCEPT ![c] = run.returned]
         /\ error' = [error EXCEPT ![c] = run.raised]
         /\ steps' = [steps EXCEPT ![c] = run.steps]
         /\ calls' = [calls EXCEPT ![c] = IF run.invoked THEN @ + 1 ELSE @]
         /\ status' = [status EXCEPT ![c] = <<run.status>>]
         /\ pc' = [pc EXCEPT ![c] = run.pc]
    /\ UNCHANGED <<impl, argv, fault, response>>

NextCli == \E c \in Callers : Main(c)

SpecCli == InitCli /\ [][NextCli]_vars

(***************************************************************************)
(* Callers of either copy of the core and of the tool wrapper.             *)
(***************************************************************************)
ToolFileLists ==
    {Walk(start, step, n) : start \in {0, 1, 5}, step \in {0, 1, 3}, n \in 0..MaxFiles}

\* One caller that imported either module, with any request.
InitTool ==
    \E module \in CoreModules, fs \in ToolFileLists, desc \in Descriptions :
        /\ impl = [c \in {1} |-> module]
        /\ files = [c \in {1} |-> fs]
        /\ description = [c \in {1} |-> desc]
        /\ pc = [c \in {1} |-> "ready"]
        /\ result = [c \in {1} |-> <<>>]
        /\ error = [c \in {1} |-> <<>>]
        /\ calls = [c \in {1} |-> 0]
        /\ steps = [c \in {1} |-> <<>>]
        /\ argv = [c \in {1} |-> <<>>]
        /\ fault = [c \in {1} |-> FALSE]
        /\ status = [c \in {1} |-> <<>>]
        /\ response = [c \in {1} |-> <<>>]

\* Caller c awaits analyze_integration_scope with its files and description
\* and gets the response; no exception reaches it.
InvokeTool(c) ==
    /\ calls[c] < MaxCalls
    /\ impl[c] = "integration_specialist_tool"
    /\ LET out == analyze_integration_scope([files |-> files[c],
                                             description |-> description[c]]) IN
         /\ files' = [files EXCEPT ![c] = out.files]
         /\ response' = [response EXCEPT ![c] = <<out.response>>]
         /\ steps' = [steps EXCEPT ![c] = out.steps]
    /\ result' = [result EXCEPT ![c] = <<>>]
    /\ error' = [error EXCEPT ![c] = <<>>]
    /\ pc' = [pc EXCEPT ![c] = "responded"]
    /\ calls' = [calls EXCEPT ![c] = @ + 1]
    /\ UNCHANGED <<description, impl, argv, fault, status>>

NextTool == \E c \in Callers : Call(c) \/ InvokeTool(c)

SpecTool == InitTool /\ [][NextTool]_vars

(***************************************************************************)
(* Properties.                                                             *)
(***************************************************************************)
\* The callers whose call has ended.
Called == {c \in Callers : calls[c] >= 1}

\* The callers holding a decision.
Decided == {c \in Called : result[c] # <<>>}

ScopeAdvisories == {LocalMsg, ModerateMsg, ExtensiveMsg}

\* The wordings of a list of warnings, in order.
Msgs(ws) == [i \in 1..Len(ws) |-> ws[i].msg]

\* C1: a call raises ScopeViolation exactly when the file list has more than
\* 10 entries; the error then carries fileCount = |files| and maxAllowed = 10
\* and there is no decision; with at most 10 entries (0 and 10 included) the
\* call returns a decision and raises nothing.
C1_ViolationIffMoreThanTen ==
    \A c \in Called :
        /\ (error[c] # <<>>) <=> (Len(files[c]) > 10)
        /\ (result[c] # <<>>) <=> (Len(files[c]) <= 10)
        /\ error[c] # <<>> =>
              /\ result[c] = <<>>
              /\ pc[c] = "raised"
              /\ error[c][1].file_count = Len(files[c])
              /\ error[c][1].max_allowed = 10
        /\ result[c] # <<>> => error[c] = <<>> /\ pc[c] = "returned"

\* A call with more than 10 files has raised.
C1_Witness ==
    \E c \in Called : Len(files[c]) > 10 /\ error[c] # <<>>

\* C2: in a decision for n files, n in 0..3 gives LOCAL and no scope-tier
\* advisory among the warnings, n in 4..5 gives MODERATE with the moderate
\* advisory first, n in 6..10 gives EXTENSIVE with the extensive advisory
\* first; no other tier is returned.
C2_TierByCount ==
    \A c \in Decided :
        LET n == Len(files[c])
            d == result[c][1]
        IN /\ d.scope_level \in {"LOCAL", "MODERATE", "EXTENSIVE"}
           /\ n \in 0..3 =>
                 /\ d.scope_level = "LOCAL"
                 /\ \A i \in 1..Len(d.warnings) : d.warnings[i].msg \notin ScopeAdvisories
           /\ n \in 4..5 =>
                 /\ d.scope_level = "MODERATE"
                 /\ d.warnings # <<>>
                 /\ d.warnings[1].msg = ModerateMsg
           /\ n \in 6..10 =>
                 /\ d.scope_level = "EXTENSIVE"
                 /\ d.warnings # <<>>
                 /\ d.warnings[1].msg = ExtensiveMsg

\* A decision at the boundary of 5 files is MODERATE.
C2_Witness ==
    \E c \in Decided : Len(files[c]) = 5 /\ result[c][1].scope_level = "MODERATE"

\* C3: every decision has approved = true whatever its warnings, and no
\* request with at most 10 files is rejected.
C3_AlwaysApproved ==
    /\ \A c \in Decided : result[c][1].approved = TRUE
    /\ \A c \in Called : Len(files[c]) <= 10 => c \in Decided /\ error[c] = <<>>

\* A decision carrying the four kinds of warning is approved.
C3_Witness ==
    \E c \in Decided :
        /\ {InfraUiMsg, CrossModuleMsg, ComplexityMsg, ExtensiveMsg}
               \subseteq {result[c][1].warnings[i].msg : i \in 1..Len(result[c][1].warnings)}
        /\ result[c][1].approved = TRUE

\* The kind of outcome, the tier and the count of one call's outcome.
Classification(out) ==
    [kind |-> IF out.raised # <<>> THEN "ScopeViolation" ELSE "decision",
     tier |-> IF out.returned # <<>> THEN out.returned[1].scope_level ELSE "none",
     count |-> IF out.returned # <<>> THEN out.returned[1].file_count
               ELSE out.raised[1].file_count]

\* The request of n copies of one path with the empty description.
Copies(n) == [i \in 1..n |-> PathPool[1]]

\* C4: the kind of outcome, the tier and the count depend only on the number
\* of entries: every request gets those of the request made of as many
\* copies of one path with an empty description, whatever its description,
\* its paths, their order and their repetitions.
C4_CountAlone ==
    \A c \in Called :
        /\ Classification([returned |-> result[c], raised |-> error[c]])
               = Classification(analyze_scope(Copies(Len(files[c])), <<>>))
        /\ Classification([returned |-> result[c], raised |-> error[c]]).count
               = Len(files[c])

\* 11 copies of one path, with a description, are a violation.
C4_Witness ==
    \E c \in Called :
        /\ Len(files[c]) = 11
        /\ \A i \in 1..Len(files[c]) : files[c][i] = files[c][1]
        /\ description[c] # <<>>
        /\ error[c] # <<>>

\* C5: a call that returns echoes the input file sequence, element for
\* element and in order, and no call changes the caller's file list or
\* description.
C5_EchoAndFrame ==
    [][\A c \in Callers :
          /\ files'[c] = files[c]
          /\ description'[c] = description[c]
          /\ (calls'[c] > calls[c] /\ result'[c] # <<>>) =>
                 result'[c][1].files = files[c]]_vars

\* A decision with a prepended advisory echoes a list with a repeated path.
C5_Witness ==
    \E c \in Decided :
        /\ result[c][1].files = files[c]
        /\ result[c][1].warnings # <<>>
        /\ result[c][1].warnings[1].msg = ModerateMsg
        /\ \E i, j \in 1..Len(files[c]) : i < j /\ files[c][i] = files[c][j]

UiWords == {<<"u", "i">>, <<"c", "s", "s">>, <<"s", "t", "y", "l", "e">>,
            <<"b", "u", "t", "t", "o", "n">>, <<"l", "a", "y", "o", "u", "t">>}

ComplexityWords == <<
    <<"f", "a", "c", "t", "o", "r", "y">>, <<"m", "a", "n", "a", "g", "e", "r">>,
    <<"h", "a", "n", "d", "l", "e", "r">>, <<"b", "u", "i", "l", "d", "e", "r">>,
    <<"s", "t", "r", "a", "t", "e", "g", "y">>, <<"a", "d", "a", "p", "t", "e", "r">> >>

SimpleFixWords == {<<"f", "i", "x">>, <<"b", "u", "g">>, <<"t", "y", "p", "o">>,
                   <<"m", "i", "n", "o", "r">>}

TfVars == <<"b", "/", "m", ".", "t", "f", "v", "a", "r", "s">>

\* The lower-cased description contains a UI keyword.
HasUiWord(desc) == \E kw \in UiWords : In(kw, Lower(desc))

\* The path contains an infrastructure marker.
IsInfraPath(p) ==
    \E k \in 1..Len(INFRASTRUCTURE_FILES) : In(INFRASTRUCTURE_FILES[k], p)

\* The paths containing an infrastructure marker, in input order.
InfraPaths(fs) == SelectSeq(fs, IsInfraPath)

InfraUiDue(fs, desc) == HasUiWord(desc) /\ \E i \in 1..Len(fs) : IsInfraPath(fs[i])

\* The positions of the warnings of one wording.
Hits(ws, m) == {i \in 1..Len(ws) : ws[i].msg = m}

\* C7: the infrastructure-for-UI warning is in the decision exactly when the
\* lower-cased description contains one of ui, css, style, button, layout
\* and some path contains an infrastructure marker; it names exactly the
\* matching paths, in input order.
C7_InfraForUi ==
    \A c \in Decided :
        LET ws == result[c][1].warnings IN
        /\ (Hits(ws, InfraUiMsg) # {}) <=> InfraUiDue(files[c], description[c])
        /\ ~HasUiWord(description[c]) => Hits(ws, InfraUiMsg) = {}
        /\ \A i \in Hits(ws, InfraUiMsg) :
               ws[i].text = Join(CommaSpace, InfraPaths(files[c]))

\* The warning is emitted for a list holding a .tfvars path and a path that
\* is no infrastructure file.
C7_Witness ==
    \E c \in Decided :
        /\ Hits(result[c][1].warnings, InfraUiMsg) # {}
        /\ \E i \in 1..Len(files[c]) : files[c][i] = TfVars
        /\ \E i \in 1..Len(files[c]) : ~IsInfraPath(files[c][i])

HasSlash(p) == \E i \in 1..Len(p) : p[i] = "/"

\* The part of a path before its first '/'.
FirstSegment(p) ==
    SubSeq(p, 1, (CHOOSE i \in 1..Len(p) :
                      p[i] = "/" /\ \A j \in 1..(i - 1) : p[j] # "/") - 1)

\* The distinct first segments of the paths that contain '/'.
Modules(fs) == {FirstSegment(fs[i]) : i \in {j \in 1..Len(fs) : HasSlash(fs[j])}}

\* The elements of a set of strings in ascending order: the i-th has i - 1
\* elements below it.
Ascending(S) ==
    [i \in 1..Cardinality(S) |->
        CHOOSE m \in S : Cardinality({x \in S : StrLess(x, m)}) = i - 1]

\* C8: the cross-module-spread warning is in the decision exactly when the
\* paths containing '/' have more than 3 distinct first segments; it lists
\* each distinct module once, in ascending lexicographic order, and the
\* description plays no part.
C8_CrossModule ==
    \A c \in Decided :
        LET ws == result[c][1].warnings
            mods == Modules(files[c])
        IN /\ (Hits(ws, CrossModuleMsg) # {}) <=> (Cardinality(mods) > 3)
           /\ \A i \in Hits(ws, CrossModuleMsg) :
                  /\ ws[i].count = Cardinality(mods)
                  /\ ws[i].text = Join(CommaSpace, Ascending(mods))

\* The warning is emitted, with an empty description, for a list with a
\* path without '/', a repeated module and modules out of order.
C8_Witness ==
    \E c \in Decided :
        /\ Hits(result[c][1].warnings, CrossModuleMsg) # {}
        /\ description[c] = <<>>
        /\ \E i \in 1..Len(files[c]) : ~HasSlash(files[c][i])
        /\ \E i, j \in 1..Len(files[c]) :
               /\ i < j
               /\ HasSlash(files[c][i]) /\ HasSlash(files[c][j])
               /\ StrLess(FirstSegment(files[c][j]), FirstSegment(files[c][i]))
        /\ \E i, j \in 1..Len(files[c]) : i < j /\ files[c][i] = files[c][j]

ComplexityDue(desc) ==
    /\ \E k \in 1..Len(ComplexityWords) : In(ComplexityWords[k], Lower(desc))
    /\ \E kw \in SimpleFixWords : In(kw, Lower(desc))

\* The complexity keywords that occur in the lower-cased description.
ComplexityNamed(desc) ==
    SelectSeq(ComplexityWords, LAMBDA kw : In(kw, Lower(desc)))

\* C9: the complexity-for-simple-fix warning is in the decision exactly when
\* the lower-cased description contains one of factory, manager, handler,
\* builder, strategy, adapter and one of fix, bug, typo, minor; it names
\* exactly the complexity keywords that occur, whatever the files are.
C9_ComplexityForSimpleFix ==
    \A c \in Decided :
        LET ws == result[c][1].warnings IN
        /\ (Hits(ws, ComplexityMsg) # {}) <=> ComplexityDue(description[c])
        /\ \A i \in Hits(ws, ComplexityMsg) :
               ws[i].text = Repr(ComplexityNamed(description[c]))

\* The warning names the two complexity keywords of a description.
C9_Witness ==
    \E c \in Decided :
        /\ Hits(result[c][1].warnings, ComplexityMsg) # {}
        /\ Len(ComplexityNamed(description[c])) = 2

\* The wordings due for a request, in order.
MsgsDue(fs, desc) ==
    (IF Len(fs) \in 4..5 THEN <<ModerateMsg>>
     ELSE IF Len(fs) \in 6..10 THEN <<ExtensiveMsg>> ELSE <<>>)
    \o (IF InfraUiDue(fs, desc) THEN <<InfraUiMsg>> ELSE <<>>)
    \o (IF Cardinality(Modules(fs)) > 3 THEN <<CrossModuleMsg>> ELSE <<>>)
    \o (IF ComplexityDue(desc) THEN <<ComplexityMsg>> ELSE <<>>)

\* C10: each warning is in the decision exactly when its own condition
\* holds, whatever the other checks found, and the warnings come in the
\* order scope-tier advisory, infrastructure-for-UI, cross-module-spread,
\* complexity-for-simple-fix, each at most once.
C10_AllWarningsInOrder ==
    \A c \in Decided :
        Msgs(result[c][1].warnings) = MsgsDue(files[c], description[c])

\* A decision carries the four warnings.
C10_Witness ==
    \E c \in Decided : Len(result[c][1].warnings) = 4

(***************************************************************************)
(* The command line.                                                       *)
(***************************************************************************)
\* The runs of main that have ended.
Ended == {c \in Callers : status[c] # <<>>}

\* The arguments given on the command line of c's run.
Args(c) == Tail(argv[c])

HasSeparator(as) == \E i \in 1..Len(as) : as[i] = Dashes

\* The positions of the arguments before the first '--', or before the last
\* argument when there is no '--'.
FilePositions(as) ==
    IF HasSeparator(as)
    THEN {i \in 1..Len(as) : \A j \in 1..i : as[j] # Dashes}
    ELSE 1..(Len(as) - 1)

\* The positions of the arguments after the first '--', or of the last
\* argument when there is no '--'.
DescriptionPositions(as) ==
    IF HasSeparator(as)
    THEN {i \in 1..Len(as) : \E j \in 1..(i - 1) : as[j] = Dashes}
    ELSE {Len(as)} \ {0}

FilesOf(as) == [i \in 1..Cardinality(FilePositions(as)) |-> as[i]]

RECURSIVE SpaceJoined(_, _)
\* The arguments at the positions from i on, with one space between two.
SpaceJoined(as, i) ==
    IF i > Len(as) THEN <<>>
    ELSE IF i = Len(as) THEN as[i]
    ELSE as[i] \o <<" ">> \o SpaceJoined(as, i + 1)

DescriptionOf(as) ==
    IF DescriptionPositions(as) = {} THEN <<>>
    ELSE SpaceJoined(as, CHOOSE i \in DescriptionPositions(as) :
                             \A j \in DescriptionPositions(as) : i <= j)

\* An invocation that parses to at least one file and a non-empty description.
ValidInvocation(as) == FilesOf(as) # <<>> /\ DescriptionOf(as) # <<>>

C12_InvalidNeverReachesCore ==
    \A c \in Ended :
        /\ (Len(Args(c)) < 2 \/ FilesOf(Args(c)) = <<>> \/ DescriptionOf(Args(c)) = <<>>)
               => /\ status[c] = <<2>>
                  /\ calls[c] = 0
                  /\ steps[c] = <<>>
                  /\ result[c] = <<>> /\ error[c] = <<>>
        /\ calls[c] >= 1 => (files[c] # <<>> /\ description[c] # <<>>)

\* A run with files, then '--', then nothing has ended with status 2 without
\* a call of the core.
C12_Witness ==
    \E c \in Ended :
        /\ Len(Args(c)) >= 2
        /\ Args(c)[Len(Args(c))] = Dashes
        /\ FilesOf(Args(c)) # <<>>
        /\ status[c] = <<2>>
        /\ calls[c] = 0

\* C13: with a '--' token the files are the arguments before the first '--'
\* and the description is the arguments after it joined with single spaces,
\* later '--' tokens included; without one the description is the last
\* argument and the files are the arguments before it; the core counts
\* exactly the arguments classified as files.
C13_ArgumentSplit ==
    \A c \in Ended :
        /\ Len(Args(c)) >= 2 => (files[c] = FilesOf(Args(c)) /\ description[c] = DescriptionOf(Args(c)))
        /\ result[c] # <<>> => result[c][1].file_count = Len(FilesOf(Args(c)))
        /\ error[c] # <<>> => error[c][1].file_count = Len(FilesOf(Args(c)))

\* The core was called by a run whose arguments hold two '--' tokens: the
\* second one is part of the description.
C13_Witness ==
    \E c \in Ended :
        /\ Cardinality({i \in 1..Len(Args(c)) : Args(c)[i] = Dashes}) = 2
        /\ calls[c] = 1
        /\ In(Dashes, description[c])
        /\ \A i \in 1..Len(files[c]) : files[c][i] # Dashes

\* The exit statuses of the runs that end on an invalid invocation.
InvalidUsageStatuses ==
    {main(<<ProgName(module)>> \o as, module, FALSE).status :
         module \in CoreModules, as \in {a \in ArgLists : ~ValidInvocation(a)}}

\* The exit statuses of the runs that end on a scope violation.
ViolationStatuses ==
    {main(<<ProgName(module)>> \o as, module, FALSE).status :
         module \in CoreModules,
         as \in {a \in ArgLists : ValidInvocation(a) /\ Len(FilesOf(a)) > 10}}

\* C14: a failure of a call other than a scope violation or an invalid-usage
\* error is surfaced as a generic failure that the caller can tell apart from
\* both, and no decision is produced for that call.
C14_GenericFailureDistinct ==
    \A c \in Ended :
        pc[c] = "failed"
            => /\ status[c][1] \notin InvalidUsageStatuses
               /\ status[c][1] \notin ViolationStatuses
               /\ result[c] = <<>>

(***************************************************************************)
(* The stages of a call.                                                   *)
(***************************************************************************)
\* Stage a comes before stage b in the list of stages.
Before(sts, a, b) ==
    \E i, j \in 1..Len(sts) : i < j /\ sts[i] = a /\ sts[j] = b

CoreCalled == {c \in Callers : pc[c] \in {"returned", "raised"}}

\* The callers whose last call was the tool wrapper.
Responded == {c \in Callers : pc[c] = "responded"}

\* What the copy of the core the caller did not import gives for the request.
OtherCopy(c) ==
    IF impl[c] = "scope_validator"
    THEN _analyze_scope_impl(files[c], description[c])
    ELSE analyze_scope(files[c], description[c])

\* C16: the two copies of the core are equivalent: for every file list and
\* description, analyze_scope and _analyze_scope_impl either both raise
\* ScopeViolation with the same fileCount and maxAllowed, or both return
\* decisions with the same approved, scope_level, file_count, warnings (same
\* strings, same order) and files.
C16_CopiesEquivalent ==
    \A c \in CoreCalled :
        LET other == OtherCopy(c) IN
        /\ (error[c] # <<>>) = (other.raised # <<>>)
        /\ error[c] # <<>>
               => /\ error[c][1].file_count = other.raised[1].file_count
                  /\ error[c][1].max_allowed = other.raised[1].max_allowed
        /\ (result[c] # <<>>) = (other.returned # <<>>)
        /\ result[c] # <<>>
               => /\ result[c][1].approved = other.returned[1].approved
                  /\ result[c][1].scope_level = other.returned[1].scope_level
                  /\ result[c][1].file_count = other.returned[1].file_count
                  /\ result[c][1].warnings = other.returned[1].warnings
                  /\ result[c][1].files = other.returned[1].files

\* The copy of integration_specialist_tool.py has returned a decision with
\* the infrastructure-for-UI warning among three warnings or more.
C16_Witness ==
    \E c \in CoreCalled :
        /\ impl[c] = "integration_specialist_tool"
        /\ result[c] # <<>>
        /\ Hits(result[c][1].warnings, InfraUiMsg) # {}
        /\ Len(result[c][1].warnings) >= 3

\* C17: the tool wrapper lets no ScopeViolation escape: its response has
\* is_error = true and an error record of type ScopeViolationError with
\* file_count = |files| and max_allowed = 10 exactly when |files| > 10;
\* otherwise it has no is_error field and carries under 'result' the decision
\* the core returns for those inputs.
C17_ViolationInResponse ==
    \A c \in Responded :
        /\ error[c] = <<>>
        /\ response[c] # <<>>
        /\ LET resp == response[c][1]
               n == Len(files[c])
           IN IF n > 10
              THEN /\ resp.is_error = <<TRUE>>
                   /\ resp.error = <<[type |-> "ScopeViolationError",
                                      file_count |-> n, max_allowed |-> 10]>>
                   /\ resp.result = <<>>
              ELSE /\ resp.is_error = <<>>
                   /\ resp.error = <<>>
                   /\ resp.result = _analyze_scope_impl(files[c], description[c]).returned
                   /\ resp.result # <<>>
                   /\ resp.result[1].file_count = n

\* The wrapper has answered a request of 11 files with an error response.
C17_Witness ==
    \E c \in Responded :
        /\ Len(files[c]) = 11
        /\ response[c] # <<>>
        /\ response[c][1].is_error = <<TRUE>>
        /\ error[c] = <<>>

(***************************************************************************)
(* The size of the list of warnings.                                       *)
(***************************************************************************)
\* The decisions caller c holds: the one returned by the core, the one under
\* 'result' in the response of the tool wrapper.
DecisionsHeld(c) ==
    {result[c][i] : i \in 1..Len(result[c])}
        \cup (IF response[c] = <<>> THEN {}
              ELSE {response[c][1].result[i] : i \in 1..Len(response[c][1].result)})

\* C18: every returned decision has between 0 and 4 warnings; a LOCAL
\* decision has at most 2 and never the cross-module-spread warning; a
\* MODERATE or EXTENSIVE decision has at least 1; the cross-module-spread
\* warning is never the first warning of a decision.
C18_WarningCount ==
    \A c \in Callers : \A d \in DecisionsHeld(c) :
        /\ Len(d.warnings) \in 0..4
        /\ d.scope_level = "LOCAL"
               => /\ Len(d.warnings) <= 2
                  /\ Hits(d.warnings, CrossModuleMsg) = {}
        /\ d.scope_level \in {"MODERATE", "EXTENSIVE"} => Len(d.warnings) >= 1
        /\ 1 \notin Hits(d.warnings, CrossModuleMsg)

\* A decision with four warnings, the cross-module-spread warning among
\* them, is held.
C18_Witness ==
    \E c \in Callers : \E d \in DecisionsHeld(c) :
        /\ Len(d.warnings) = 4
        /\ Hits(d.warnings, CrossModuleMsg) # {}

====
